---- MODULE Spec2Model ----
(***************************************************************************)
(* Model of RJPEG.py: the RJPEG class (construction from a FLIR            *)
(* radiometric JPEG through exiftool, decoding of the embedded raw thermal *)
(* image, the embedded-FLIR radiance computation and the three TIFF        *)
(* writers) together with the module-level name `src` that the test        *)
(* harness binds.                                                          *)
(*                                                                         *)
(* Numbers.  Every numeric input of the model is an integer, so Python     *)
(* float (binary64) arithmetic on them is exact.  numpy float32 holds an   *)
(* integer exactly only up to 2^24: astype(np.float32) and float32         *)
(* additions/multiplications are modelled by RoundF32 (round to nearest,   *)
(* ties to even).  The final quotient R1 / denominator - F is kept as an   *)
(* exact reduced fraction <<num, den>>; NaN is the pair <<0, 0>>.          *)
(***************************************************************************)
EXTENDS Integers, Sequences, FiniteSets, TLC

VARIABLES
    host,   \* sys.byteorder of the machine
    obj,    \* the RJPEG objects: attributes and outcome of the constructor
    src,    \* the module-level name src: an object, or NoSrc while unbound
    last    \* the effect of the most recent writer call

vars == <<host, obj, src, last>>

(***************************************************************************)
(* Bounds of the model.                                                    *)
(***************************************************************************)
MaxPix == 2      \* largest number of pixels of a raw thermal grid
MaxLow == 1      \* raw counts are taken from 0..MaxLow and 65535-MaxLow..65535
MaxO   == 1      \* small PlanckO values are taken from -MaxO..MaxO

Objs == {1, 2}   \* RJPEG objects a program creates

(***************************************************************************)
(* Python values.                                                          *)
(***************************************************************************)
None  == [none |-> TRUE]
Unset == [unset |-> TRUE]          \* an attribute that was never assigned
NoSrc == 0                         \* the module-level name src is unbound

NaN == <<0, 0>>

Abs(x) == IF x < 0 THEN -x ELSE x

RECURSIVE GCD(_, _)
GCD(a, b) == IF b = 0 THEN a ELSE GCD(b, a % b)

\* the exact fraction n/d, d > 0, in lowest terms
Rat(n, d) ==
    LET g == GCD(Abs(n), d)
    IN  <<n \div g, d \div g>>

(***************************************************************************)
(* numpy float32 on integer values.                                        *)
(***************************************************************************)
F32Exact == 2^24

RoundF32(x) ==
    LET a == Abs(x)
    IN  IF a <= F32Exact THEN x
        ELSE LET e   == CHOOSE k \in 24..29 : 2^k <= a /\ a < 2^(k+1)
                 ulp == 2^(e - 23)
                 q   == a \div ulp
                 r   == a % ulp
                 qq  == IF 2*r > ulp \/ (2*r = ulp /\ q % 2 = 1)
                          THEN q + 1 ELSE q
             IN  IF x < 0 THEN -(qq * ulp) ELSE qq * ulp

F32Add(x, y) == RoundF32(RoundF32(x) + RoundF32(y))
F32Mul(x, y) == RoundF32(RoundF32(x) * RoundF32(y))

(***************************************************************************)
(* numpy arrays: a dtype (kind, width in bytes, byte order of the memory), *)
(* a shape and the memory itself, one byte sequence per element.           *)
(***************************************************************************)
HostOrder(h) == IF h = "little" THEN "<" ELSE ">"

Encode(v, order, width) ==
    LET le == [k \in 1..width |-> (v \div (256^(k-1))) % 256]
    IN  IF order = "<" THEN le ELSE [k \in 1..width |-> le[width + 1 - k]]

RECURSIVE BigEndianValue(_)
BigEndianValue(bytes) ==
    IF bytes = <<>> THEN 0
    ELSE 256 * BigEndianValue(SubSeq(bytes, 1, Len(bytes) - 1)) + bytes[Len(bytes)]

Reverse(s) == [k \in 1..Len(s) |-> s[Len(s) + 1 - k]]

ElemValue(bytes, order) ==
    IF order = "<" THEN BigEndianValue(Reverse(bytes)) ELSE BigEndianValue(bytes)

Values(arr) == [i \in DOMAIN arr.mem |-> ElemValue(arr.mem[i], arr.order)]

\* img.dtype.byteorder: '=' for the native order, else the order itself
DtypeByteorder(arr, h) == IF arr.order = HostOrder(h) THEN "=" ELSE arr.order

IsNativeUint16(arr, h) ==
    arr.kind = "u" /\ arr.width = 2 /\ arr.order = HostOrder(h)

astype_uint16_view(arr, h) ==
    [kind |-> "u", width |-> 2, order |-> HostOrder(h),
     shape |-> arr.shape,
     mem |-> [i \in DOMAIN arr.mem |-> SubSeq(arr.mem[i], 1, 2)]]

\* img.astype(np.uint16, copy=False): a value cast into native uint16
astype_uint16(arr, h) ==
    [kind |-> "u", width |-> 2, order |-> HostOrder(h),
     shape |-> arr.shape,
     mem |-> [i \in DOMAIN arr.mem |->
                Encode(ElemValue(arr.mem[i], arr.order) % 65536, HostOrder(h), 2)]]

byteswap(arr) == [arr EXCEPT !.mem = [i \in DOMAIN arr.mem |-> Reverse(arr.mem[i])]]

newbyteorder(arr) == [arr EXCEPT !.order = IF arr.order = "<" THEN ">" ELSE "<"]

(***************************************************************************)
(* Blobs returned by exiftool -b and their decoding by PIL + np.array.     *)
(***************************************************************************)
EmptyBlob == [mode |-> "", shape |-> <<0, 0>>, samples |-> <<>>]

\* np.array(PIL.Image.open(blob)): I;16 is '<u2', I;16B is '>u2', I is the
\* native int32, RGB/L are uint8
PILArray(blob, h) ==
    LET order == CASE blob.mode = "I;16"  -> "<"
                   [] blob.mode = "I;16B" -> ">"
                   [] OTHER               -> HostOrder(h)
        width == CASE blob.mode \in {"I;16", "I;16B"} -> 2
                   [] blob.mode = "I"                  -> 4
                   [] OTHER                            -> 1
        kind  == IF blob.mode = "I" THEN "i" ELSE "u"
    IN  [kind |-> kind, width |-> width, order |-> order,
         shape |-> blob.shape,
         mem |-> [i \in DOMAIN blob.samples |->
                    Encode(blob.samples[i], order, width)]]

_extract_embedded_rgb_image_unguarded(blob, h) == PILArray(blob, h)

_extract_embedded_rgb_image(blob, h) ==
    IF blob = EmptyBlob THEN None
    ELSE PILArray(blob, h)

\* lines 145-157: the decoded image as native uint16 counts
decode_raw(blob, h) ==
    LET raw  == PILArray(blob, h)
        img  == IF ~IsNativeUint16(raw, h) THEN astype_uint16(raw, h) ELSE raw
        byte_order == DtypeByteorder(img, h)
        needs_swapped ==
            \/ (byte_order = ">" /\ h = "little")
            \/ (byte_order = "<" /\ h = "big")
    IN  IF needs_swapped THEN newbyteorder(byteswap(img)) ELSE img

_extract_embedded_raw_thermal_image_raises(blob, h) ==
    IF blob = EmptyBlob THEN [exc |-> "DecodeError"]
    ELSE decode_raw(blob, h)

_extract_embedded_raw_thermal_image(blob, h) ==
    IF blob = EmptyBlob THEN None
    ELSE decode_raw(blob, h)

(***************************************************************************)
(* Radiance.  A radiance array has the shape of the raw counts and one     *)
(* float32 value per element: a reduced fraction, or NaN.                  *)
(***************************************************************************)
PlanckKeys == <<"PlanckR1", "PlanckR2", "PlanckO", "PlanckF">>

\* float(self._metadata[k]) for the four keys in turn: the first absent key
\* raises KeyError
FirstMissing(md) ==
    IF \A i \in 1..4 : PlanckKeys[i] \in DOMAIN md THEN ""
    ELSE PlanckKeys[CHOOSE i \in 1..4 :
                       /\ PlanckKeys[i] \notin DOMAIN md
                       /\ \A j \in 1..(i-1) : PlanckKeys[j] \in DOMAIN md]

\* the count inverted without the offset: raw_counts = (2**16 - 1) - counts
Pixel_offset_kept(c, R1, R2, O, F) ==
    LET raw_count   == 65535 - c
        denominator == F32Mul(R2, F32Add(RoundF32(raw_count), O))
    IN  IF denominator <= 0 THEN NaN
        ELSE Rat(R1 - F * denominator, denominator)

\* one element of lines 194-200: the count c, the constants as floats
Pixel(c, R1, R2, O, F) ==
    LET raw_count   == (65535 - O) - c
        denominator == F32Mul(R2, F32Add(RoundF32(raw_count), O))
        bad_pixel   == denominator <= 0
    IN  IF bad_pixel THEN NaN
        ELSE Rat(R1 - F * denominator, denominator)

\* bad pixels removed instead of set to NaN
RadianceArray_compressed(raw, R1, R2, O, F) ==
    LET counts == Values(raw)
        all    == [i \in DOMAIN counts |-> Pixel(counts[i], R1, R2, O, F)]
    IN  [kind |-> "f", width |-> 4, shape |-> raw.shape,
         px |-> SelectSeq(all, LAMBDA v : v # NaN)]

RadianceArray(raw, R1, R2, O, F) ==
    LET counts == Values(raw)
    IN  [kind |-> "f", width |-> 4, shape |-> raw.shape,
         px |-> [i \in DOMAIN counts |-> Pixel(counts[i], R1, R2, O, F)]]

\* metadata.get(key, 0.0) in place of metadata[key]
_compute_radiance_with_defaults(md, raw) ==
    LET get(k) == IF k \in DOMAIN md THEN md[k] ELSE 0
    IN  IF raw # None
        THEN [exc |-> "", key |-> "",
              radiance |-> RadianceArray(raw, get("PlanckR1"), get("PlanckR2"),
                                         get("PlanckO"), get("PlanckF")),
              arith |-> TRUE]
        ELSE [exc |-> "", key |-> "", radiance |-> None, arith |-> FALSE]

\* the result of the computation: the exception raised (or ""), the value
\* assigned to self._radiance, and whether the array arithmetic was reached
_compute_radiance_using_embedded_flir_approach(md, raw) ==
    IF raw # None THEN
        IF FirstMissing(md) # ""
        THEN [exc |-> "KeyError", key |-> FirstMissing(md),
              radiance |-> Unset, arith |-> FALSE]
        ELSE [exc |-> "", key |-> "",
              radiance |-> RadianceArray(raw, md["PlanckR1"], md["PlanckR2"],
                                         md["PlanckO"], md["PlanckF"]),
              arith |-> TRUE]
    ELSE [exc |-> "", key |-> "", radiance |-> None, arith |-> FALSE]

\* the call at lines 43-45 passes one argument to a method that takes none
_compute_radiance_using_calibration_coefficients(calibration_coefficients) ==
    [exc |-> "TypeError", key |-> "", radiance |-> Unset, arith |-> FALSE]

(***************************************************************************)
(* RJPEG objects.  Next to its attributes an object records what its       *)
(* constructor read once the checks of lines 20-33 passed: file (what      *)
(* exiftool finds at the path) and calibration_coefficients.               *)
(***************************************************************************)
Unborn ==
    [state |-> "unborn", exc |-> "", key |-> "",
     file |-> None, calibration_coefficients |-> None,
     metadata |-> Unset, rgb |-> Unset, raw_counts |-> Unset,
     radiance |-> Unset, arith |-> FALSE]

Raise(o, e) == [o EXCEPT !.state = "raised", !.exc = e]

RJPEG__init__(tool, file, calibration_coefficients, h) ==
    LET self == [Unborn EXCEPT !.file = file,
                    !.calibration_coefficients = calibration_coefficients]
    IN  IF ~tool THEN Raise(Unborn, "RuntimeError")
        ELSE IF file.kind = "missing" THEN Raise(Unborn, "FileNotFoundError")
        ELSE IF file.kind = "dir" THEN Raise(Unborn, "IsADirectoryError")
        ELSE IF file.kind = "unreadable" THEN Raise(Unborn, "PermissionError")
        ELSE
            LET rgb == _extract_embedded_rgb_image(file.rgb, h)
                raw == _extract_embedded_raw_thermal_image(file.raw, h)
                s3  == [self EXCEPT !.metadata = file.meta, !.rgb = rgb,
                                    !.raw_counts = raw]
                res == IF calibration_coefficients # None
                         THEN _compute_radiance_using_calibration_coefficients(
                                  calibration_coefficients)
                         ELSE _compute_radiance_using_embedded_flir_approach(
                                  file.meta, raw)
            IN  \* an exception of the extraction leaves __init__
                IF "exc" \in DOMAIN raw THEN Raise(s3, raw.exc)
                ELSE [s3 EXCEPT !.state = IF res.exc = "" THEN "ok" ELSE "raised",
                                !.exc = res.exc, !.key = res.key,
                                !.radiance = res.radiance, !.arith = res.arith]

\* the shape property
shape(o) == IF o.raw_counts # None THEN o.raw_counts.shape ELSE None

(***************************************************************************)
(* The writers.  A path is <<stem, suffix>>.                               *)
(***************************************************************************)
Lower(suffix) ==
    CASE suffix = ".TIFF" -> ".tiff"
      [] suffix = ".TIF"  -> ".tif"
      [] suffix = ".PNG"  -> ".png"
      [] OTHER            -> suffix

TiffPath(path) ==
    IF Lower(path[2]) \notin {".tif", ".tiff"} THEN <<path[1], ".tif">> ELSE path

NoCall ==
    [op |-> "", self |-> NoSrc, exc |-> "", warned |-> FALSE,
     wrote |-> FALSE, path |-> <<"", "">>, data |-> None]

\* write_rgb, write_raw_counts and write_radiance share one body: `tested`
\* is the attribute the if reads, through the global name src (lines 118,
\* 164, 214; NameError while src is unbound), `own` the attribute of self
\* handed to PIL.Image.fromarray, which raises on None
Write(op, self, own, tested, path) ==
    IF src = NoSrc
    THEN [NoCall EXCEPT !.op = op, !.self = self, !.exc = "NameError"]
    ELSE IF tested # None
    THEN IF own = None
         THEN [NoCall EXCEPT !.op = op, !.self = self, !.exc = "AttributeError"]
         ELSE [NoCall EXCEPT !.op = op, !.self = self, !.wrote = TRUE,
                             !.path = TiffPath(path), !.data = own]
    ELSE [NoCall EXCEPT !.op = op, !.self = self, !.warned = TRUE]

Attr(o, op) ==
    CASE op = "write_rgb"        -> o.rgb
      [] op = "write_raw_counts" -> o.raw_counts
      [] op = "write_radiance"   -> o.radiance

(***************************************************************************)
(* Inputs.                                                                 *)
(***************************************************************************)
Coeffs == [coeffs |-> TRUE]        \* some calibration_coefficients array

Meta(R1, R2, O, F) ==
    ("PlanckR1" :> R1) @@ ("PlanckR2" :> R2) @@ ("PlanckO" :> O) @@ ("PlanckF" :> F)

FullMeta == Meta(1000, 1, -1, 0)

Without(md, k) == [x \in (DOMAIN md) \ {k} |-> md[x]]

Metas == {FullMeta} \cup {Without(FullMeta, PlanckKeys[i]) : i \in 1..4}

RawBlob == [mode |-> "I;16B", shape |-> <<1, 2>>, samples |-> <<65534, 65535>>]
RgbBlob == [mode |-> "RGB", shape |-> <<1, 1>>, samples |-> <<7>>]

OkFiles ==
    [kind : {"ok"}, meta : Metas, rgb : {EmptyBlob, RgbBlob},
     raw : {EmptyBlob, RawBlob}]

BadFiles ==
    {[kind |-> k, meta |-> <<>>, rgb |-> EmptyBlob, raw |-> EmptyBlob] :
        k \in {"missing", "dir", "unreadable"}}

Files == OkFiles \cup BadFiles

OutPaths == {<<"out", ".TIFF">>, <<"out", ".png">>}

\* inputs of the pixel pipeline
BigO == 2^25

CountVals == (0..MaxLow) \cup ((65535 - MaxLow)..65535)
OVals == ((-MaxO)..MaxO) \cup {BigO}

Shapes == {sh \in (1..MaxPix) \X (1..MaxPix) : sh[1] * sh[2] <= MaxPix}

RawBlobs ==
    UNION {[mode : {"I;16", "I;16B", "I"}, shape : {sh},
            samples : [1..(sh[1] * sh[2]) -> CountVals]] : sh \in Shapes}

PixelFiles ==
    {[kind |-> "ok", meta |-> Meta(1000, R2, O, F), rgb |-> EmptyBlob, raw |-> b] :
        R2 \in {-1, 2}, O \in OVals, F \in {0, 1}, b \in RawBlobs}

(***************************************************************************)
(* The state machine.                                                      *)
(***************************************************************************)
Init ==
    /\ host \in {"little", "big"}
    /\ obj = [o \in Objs |-> Unborn]
    /\ src = NoSrc
    /\ last = NoCall

\* RJPEG(path, calibration_coefficients) called by a program that imports
\* the module
Construct(o) ==
    /\ obj[o].state = "unborn"
    /\ \E tool \in BOOLEAN, f \in Files, cal \in {None, Coeffs} :
          obj' = [obj EXCEPT ![o] = RJPEG__init__(tool, f, cal, host)]
    /\ UNCHANGED <<host, src, last>>

\* line 264 of the test harness: src = RJPEG(args.path)
Main(o) ==
    /\ obj[o].state = "unborn"
    /\ \E tool \in BOOLEAN, f \in Files :
          LET new == RJPEG__init__(tool, f, None, host)
          IN  /\ obj' = [obj EXCEPT ![o] = new]
              /\ src' = IF new.state = "ok" THEN o ELSE src
    /\ UNCHANGED <<host, last>>

write_rgb(o) ==
    /\ obj[o].state = "ok"
    /\ \E path \in OutPaths :
          last' = Write("write_rgb", o, obj[o].rgb,
                        IF src = NoSrc THEN None ELSE obj[src].rgb, path)
    /\ UNCHANGED <<host, obj, src>>

write_raw_counts(o) ==
    /\ obj[o].state = "ok"
    /\ \E path \in OutPaths :
          last' = Write("write_raw_counts", o, obj[o].raw_counts,
                        IF src = NoSrc THEN None ELSE obj[src].raw_counts, path)
    /\ UNCHANGED <<host, obj, src>>

write_radiance(o) ==
    /\ obj[o].state = "ok"
    /\ \E path \in OutPaths :
          last' = Write("write_radiance", o, obj[o].radiance,
                        IF src = NoSrc THEN None ELSE obj[src].radiance, path)
    /\ UNCHANGED <<host, obj, src>>

Next ==
    \E o \in Objs :
        \/ Construct(o)
        \/ Main(o)
        \/ write_rgb(o)
        \/ write_raw_counts(o)
        \/ write_radiance(o)

Spec == Init /\ [][Next]_vars

\* the decode-then-reconstruct pass on its own, over the pixel inputs
PixelConstruct ==
    /\ obj[1].state = "unborn"
    /\ \E f \in PixelFiles :
          obj' = [obj EXCEPT ![1] = RJPEG__init__(TRUE, f, None, host)]
    /\ UNCHANGED <<host, src, last>>

PixelNext == PixelConstruct

PixelSpec == Init /\ [][PixelNext]_vars

(***************************************************************************)
(* Properties.                                                             *)
(***************************************************************************)
\* objects whose constructor got past the checks of lines 20-33
Started == {o \in Objs : obj[o].file # None}
Built   == {o \in Objs : obj[o].state = "ok"}
WithRadiance == {o \in Built : obj[o].radiance # None}

Counts(o) == Values(obj[o].raw_counts)
K(o, k)   == obj[o].metadata[k]

\* the denominator of the specified formula, R2 * ((65535 - c) + O), in float32
SpecDenominator(o, i) ==
    F32Mul(K(o, "PlanckR2"), F32Add(65535 - Counts(o)[i], K(o, "PlanckO")))

\* C1: every pixel with R2 * ((65535 - c) + O) <= 0 is NaN in the radiance.
C1_InvalidPixelIsNaN ==
    \A o \in WithRadiance : \A i \in DOMAIN Counts(o) :
        SpecDenominator(o, i) <= 0 => obj[o].radiance.px[i] = NaN

\* C2: every pixel whose denominator d = R2 * ((65535 - c) + O) is positive
\* has radiance R1 / d - F.
C2_ValidPixelValue ==
    \A o \in WithRadiance : \A i \in DOMAIN Counts(o) :
        LET d == SpecDenominator(o, i)
        IN  d > 0 => obj[o].radiance.px[i] =
                        Rat(K(o, "PlanckR1") - K(o, "PlanckF") * d, d)

\* C3: construction with calibration coefficients supplied completes without
\* raising and leaves the radiance absent.
C3_CalibrationPathAbsent ==
    \A o \in Started :
        obj[o].calibration_coefficients # None =>
            obj[o].state = "ok" /\ obj[o].radiance = None

Stored(mode, v) == Encode(v, IF mode = "I;16B" THEN ">" ELSE "<", 2)

\* C6: on either host, a big-endian and a little-endian blob of the same
\* 16-bit samples decode to counts equal to the samples, held in host
\* order: the bytes are swapped exactly when the blob's order is not the
\* host's.
C6_ByteOrder ==
    \A o \in Built :
        LET b == obj[o].file.raw
            swapped == (IF b.mode = "I;16B" THEN ">" ELSE "<") # HostOrder(host)
        IN  b.mode \in {"I;16", "I;16B"} =>
              /\ Counts(o) = b.samples
              /\ obj[o].raw_counts.order = HostOrder(host)
              /\ \A i \in DOMAIN b.samples :
                    obj[o].raw_counts.mem[i] =
                        IF swapped THEN Reverse(Stored(b.mode, b.samples[i]))
                        ELSE Stored(b.mode, b.samples[i])

C6_Witness ==
    \E o \in Built :
        /\ host = "little"
        /\ obj[o].file.raw.mode = "I;16B"
        /\ obj[o].file.raw.samples = <<1, 65534>>
        /\ Counts(o) = <<1, 65534>>
        /\ obj[o].raw_counts.mem = << <<1, 0>>, <<254, 255>> >>

\* C7: after a successful construction with raw counts present, radiance is
\* present, has the shape of the raw counts and holds one value per count.
C7_ShapePreserved ==
    \A o \in Built :
        obj[o].raw_counts # None =>
            /\ obj[o].radiance # None
            /\ obj[o].radiance.shape = shape(obj[o])
            /\ DOMAIN obj[o].radiance.px = DOMAIN obj[o].raw_counts.mem
            /\ Len(obj[o].radiance.px) = shape(obj[o])[1] * shape(obj[o])[2]

C7_Witness ==
    \E o \in Built :
        /\ shape(obj[o]) = <<1, 2>>
        /\ obj[o].radiance.px[1] # NaN
        /\ obj[o].radiance.px[2] = NaN

\* C8: with an empty RGB blob, a raw thermal blob and all four constants,
\* construction succeeds, rgb is None, and raw counts and radiance are those
\* of an object built from the same file with an RGB preview.
C8_RgbOptional ==
    \A o \in Started :
        (obj[o].file.rgb = EmptyBlob
            /\ obj[o].file.raw # EmptyBlob
            /\ FirstMissing(obj[o].file.meta) = ""
            /\ obj[o].calibration_coefficients = None) =>
            /\ obj[o].state = "ok"
            /\ obj[o].rgb = None
            /\ obj[o].raw_counts # None
            /\ obj[o].radiance # None
            /\ \A p \in Built :
                  (obj[p].file = [obj[o].file EXCEPT !.rgb = RgbBlob]) =>
                      /\ obj[p].rgb # None
                      /\ obj[p].raw_counts = obj[o].raw_counts
                      /\ obj[p].radiance = obj[o].radiance

C8_Witness ==
    \E o \in Built, p \in Built :
        /\ obj[o].file.rgb = EmptyBlob
        /\ obj[o].raw_counts # None
        /\ obj[p].file = [obj[o].file EXCEPT !.rgb = RgbBlob]
        /\ obj[p].radiance = obj[o].radiance

\* C9: a write operation writes a file exactly when the receiving object's
\* own data is present, and otherwise only prints the warning, whatever the
\* module-level name src is bound to.
C9_WriteUsesOwnData ==
    last.op # "" =>
        LET own == Attr(obj[last.self], last.op)
        IN  /\ last.wrote <=> own # None
            /\ last.warned <=> own = None
            /\ last.exc = ""

\* the pixel the claim describes: denominator R2 * (65535 - c)
OffsetFree(o, i) ==
    LET d == K(o, "PlanckR2") * (65535 - Counts(o)[i])
    IN  IF d <= 0 THEN NaN
        ELSE Rat(K(o, "PlanckR1") - K(o, "PlanckF") * d, d)

====
